---- MODULE Spec2Model ----
(***************************************************************************)
(* Sales-tax kata: Item (price, import flag, category), its tax rule and   *)
(* rounding, the line parser (FromStr for Item), and Basket (totals and    *)
(* receipt), modelled from src/src/lib.rs.                                 *)
(*                                                                         *)
(* f64 values are modelled as fixed-point decimals with four fractional    *)
(* digits (unit 1/10000) plus the value NaN.  Every product the program    *)
(* forms on a price given in whole cents is exact at this resolution.      *)
(* f64::round on them agrees with decimal rounding for every cent price up *)
(* to 2000.00.  Sums are modelled exactly: the binary error an f64 fold    *)
(* accumulates (6.6499999999999995 for 6.65) is below the resolution of    *)
(* the model, and a sum is displayed as its exact decimal.                 *)
(*                                                                         *)
(* A string is a sequence of chunks, concatenated literally.  The chunks   *)
(* are words without blanks, the separator " at ", the literal pieces the  *)
(* program writes ("1 ", ": ", "\n", ...) and single digits.               *)
(***************************************************************************)
EXTENDS Integers, Sequences, FiniteSets, TLC

VARIABLES input, made, item, basket, out

vars == <<input, made, item, basket, out>>

----------------------------------------------------------------------------
(* Bounds *)

\* largest price, in cents, of the contiguous price range 0 .. MaxCents
MaxCents == 200
\* longest line, in chunks, handed to the parser
MaxChunks == 4
\* longest basket built directly from items
MaxElems == 4
\* longest batch of lines handed to the basket parser
MaxLines == 3

----------------------------------------------------------------------------
(* f64 *)

\* one unit of the fixed-point representation is 1 / Scale
Scale == 10000

F(n) == [nan |-> FALSE, v |-> n]
NaN == [nan |-> TRUE, v |-> 0]
Cents(c) == F(c * 100)

\* IEEE comparisons: every comparison with NaN is false
FLt(a, b) == ~a.nan /\ ~b.nan /\ a.v < b.v
FGe(a, b) == ~a.nan /\ ~b.nan /\ a.v >= b.v

FAdd(a, b) == IF a.nan \/ b.nan THEN NaN ELSE F(a.v + b.v)

Abs(n) == IF n < 0 THEN -n ELSE n
Sgn(n) == IF n < 0 THEN -1 ELSE 1

\* a * b, the product split so that no intermediate exceeds 32 bits
FMul(a, b) ==
    IF a.nan \/ b.nan THEN NaN
    ELSE F(Sgn(a.v) * Sgn(b.v) *
           (Abs(a.v) * (Abs(b.v) \div Scale)
              + (Abs(a.v) * (Abs(b.v) % Scale)) \div Scale))

\* a / b for b > 0, split the same way
FDiv(a, b) ==
    IF a.nan \/ b.nan THEN NaN
    ELSE F(Sgn(a.v) *
           ((Abs(a.v) \div b.v) * Scale + ((Abs(a.v) % b.v) * Scale) \div b.v))

\* f64::round: to the nearest integer, halves away from zero
FRound(a) ==
    IF a.nan THEN NaN
    ELSE F(Sgn(a.v) * (((2 * Abs(a.v) + Scale) \div (2 * Scale)) * Scale))

----------------------------------------------------------------------------
(* Results *)

Ok(v) == [ok |-> TRUE, val |-> v]
Err(e) == [ok |-> FALSE, err |-> e]
Unset == Err("unset")

ErrNotPositive == "clean_price must be positive"
ErrMissingAt == "Invalid string: missing 'at'"
ErrPrice == "Price is not valid"

----------------------------------------------------------------------------
(* Item *)

Imported == {"Yes", "No"}
CategoryTags == {"Book", "Food", "Medical", "Other"}
Category(tag, name) == [tag |-> tag, name |-> name]

Item_new(clean_price, imported, category) ==
    IF FLt(clean_price, F(0))
    THEN Err(ErrNotPositive)
    ELSE Ok([clean_price |-> clean_price, imported |-> imported,
             category |-> category])

\* variant of round_numbers that rounds up to the next multiple of 0.05
FCeil(a) ==
    IF a.nan THEN NaN
    ELSE F(((a.v + Scale - 1) \div Scale) * Scale)
round_numbers_up(number) ==
    FDiv(FCeil(FMul(number, F(20 * Scale))), F(20 * Scale))

round_numbers(number) ==
    FDiv(FRound(FMul(number, F(20 * Scale))), F(20 * Scale))

\* the literals 0.10 and 0.05
Rate10 == F(1000)
Rate05 == F(500)

Item_get_prices(self) ==
    LET exempt == self.category.tag \in {"Book", "Food", "Medical"}
    IN  CASE exempt /\ self.imported = "No" ->
                <<self.clean_price, F(0)>>
          [] ~exempt /\ self.imported = "No" ->
                <<self.clean_price, round_numbers(FMul(self.clean_price, Rate10))>>
          [] exempt /\ self.imported = "Yes" ->
                <<self.clean_price, round_numbers(FMul(self.clean_price, Rate05))>>
          [] ~exempt /\ self.imported = "Yes" ->
                <<self.clean_price,
                  round_numbers(FMul(self.clean_price, FAdd(Rate10, Rate05)))>>

----------------------------------------------------------------------------
(* Display of an f64 ("{}"): the shortest decimal that reads back *)

DigitStr(d) == ToString(d)

RECURSIVE Digits(_)
Digits(n) == IF n < 10 THEN <<DigitStr(n)>>
             ELSE Digits(n \div 10) \o <<DigitStr(n % 10)>>

\* f written with exactly width digits, leading zeros kept
RECURSIVE PadDigits(_, _)
PadDigits(f, width) ==
    IF width = 0 THEN <<>>
    ELSE PadDigits(f \div 10, width - 1) \o <<DigitStr(f % 10)>>

\* the fraction f / 10^width as digits, trailing zeros dropped
RECURSIVE FracDigits(_, _)
FracDigits(f, width) ==
    IF f = 0 THEN <<>>
    ELSE IF f % 10 = 0 THEN FracDigits(f \div 10, width - 1)
    ELSE PadDigits(f, width)

FmtF64(x) ==
    IF x.nan THEN <<"NaN">>
    ELSE LET a == Abs(x.v)
             frac == FracDigits(a % Scale, 4)
         IN  (IF x.v < 0 THEN <<"-">> ELSE <<>>)
             \o Digits(a \div Scale)
             \o (IF frac = <<>> THEN <<>> ELSE <<".">> \o frac)

Item_to_string(self) ==
    LET name == self.category.name
        prefix == IF self.imported = "Yes" THEN "1 imported " ELSE "1 "
    IN  <<prefix>> \o name \o <<": ">> \o FmtF64(Item_get_prices(self)[1])

----------------------------------------------------------------------------
(* Line parser: impl FromStr for Item *)

Sep == " at "

\* str::contains on one chunk, for the keywords the parser looks for
ChunkHas(chunk, kw) ==
    \/ chunk = kw
    \/ chunk = "chocolates" /\ kw = "chocolate"

Contains(s, kw) == \E i \in 1..Len(s) : ChunkHas(s[i], kw)

\* str::split(" at "): the pieces between the separators, in order
RECURSIVE SplitOn(_, _)
SplitOn(s, sep) ==
    IF \A i \in 1..Len(s) : s[i] # sep THEN <<s>>
    ELSE LET k == CHOOSE i \in 1..Len(s) :
                      s[i] = sep /\ \A j \in 1..(i - 1) : s[j] # sep
         IN  <<SubSeq(s, 1, k - 1)>> \o SplitOn(SubSeq(s, k + 1, Len(s)), sep)

\* str::parse::<f64> on the chunks the model writes prices with
ParseF64(s) ==
    IF Len(s) # 1 THEN Err("ParseFloatError")
    ELSE CASE s[1] = "18.99" -> Ok(Cents(1899))
           [] s[1] = "-18.99" -> Ok(Cents(-1899))
           [] s[1] = "11.25" -> Ok(Cents(1125))
           [] s[1] = "NaN" -> Ok(NaN)
           [] OTHER -> Err("ParseFloatError")

\* variant of Item_from_str that looks for "chocolate" before "pills"
Item_from_str_food_first(s) ==
    LET components == SplitOn(s, Sep)
    IN  IF Len(components) # 2 THEN Err(ErrMissingAt)
        ELSE LET descr == components[1]
                 price == ParseF64(components[2])
             IN  IF ~price.ok THEN Err(ErrPrice)
                 ELSE LET imported == IF Contains(descr, "imported")
                                      THEN "Yes" ELSE "No"
                          category ==
                              IF Contains(descr, "chocolate")
                              THEN Category("Food", descr)
                              ELSE IF Contains(descr, "pills")
                              THEN Category("Medical", descr)
                              ELSE Category("Other", descr)
                      IN  Item_new(price.val, imported, category)

Item_from_str(s) ==
    LET components == SplitOn(s, Sep)
    IN  IF Len(components) # 2 THEN Err(ErrMissingAt)
        ELSE LET descr == components[1]
                 price == ParseF64(components[2])
             IN  IF ~price.ok THEN Err(ErrPrice)
                 ELSE LET imported == IF Contains(descr, "imported")
                                      THEN "Yes" ELSE "No"
                          category ==
                              IF Contains(descr, "pills")
                              THEN Category("Medical", descr)
                              ELSE IF Contains(descr, "chocolate")
                              THEN Category("Food", descr)
                              ELSE IF Contains(descr, "perfume")
                              THEN Category("Other", descr)
                              ELSE Category("Other", descr)
                      IN  Item_new(price.val, imported, category)

----------------------------------------------------------------------------
(* Basket *)

Basket_new(elements) == [elements |-> elements]

\* the closures of the two folds
TotalStep(acc, x) ==
    FAdd(FAdd(acc, Item_get_prices(x)[1]), Item_get_prices(x)[2])
TaxStep(acc, x) == FAdd(acc, Item_get_prices(x)[2])

\* Iterator::fold over the elements, from the left
RECURSIVE FoldTotal(_, _)
FoldTotal(acc, s) ==
    IF s = <<>> THEN acc ELSE FoldTotal(TotalStep(acc, Head(s)), Tail(s))

RECURSIVE FoldTax(_, _)
FoldTax(acc, s) ==
    IF s = <<>> THEN acc ELSE FoldTax(TaxStep(acc, Head(s)), Tail(s))

Basket_get_total(self) == FoldTotal(F(0), self.elements)
Basket_get_tax(self) == FoldTax(F(0), self.elements)

\* [String]::join
RECURSIVE Join(_, _)
Join(strs, sep) ==
    IF strs = <<>> THEN <<>>
    ELSE IF Len(strs) = 1 THEN strs[1]
    ELSE strs[1] \o <<sep>> \o Join(Tail(strs), sep)

\* variant of Basket_to_string that ends the receipt with a newline
Basket_to_string_trailing(self) ==
    LET string_element ==
            [i \in 1..Len(self.elements) |-> Item_to_string(self.elements[i])]
        with_tax == Append(string_element,
                           <<"Sales Taxes: ">> \o FmtF64(Basket_get_tax(self)))
        with_total == Append(with_tax,
                             <<"Total: ">> \o FmtF64(Basket_get_total(self)))
    IN  Join(with_total, "\n") \o <<"\n">>

Basket_to_string(self) ==
    LET string_element ==
            [i \in 1..Len(self.elements) |-> Item_to_string(self.elements[i])]
        with_tax == Append(string_element,
                           <<"Sales Taxes: ">> \o FmtF64(Basket_get_tax(self)))
        with_total == Append(with_tax,
                             <<"Total: ">> \o FmtF64(Basket_get_total(self)))
    IN  Join(with_total, "\n")

\* Basket::from_str, which main.rs calls and lib.rs does not define: each line
\* goes through the line parser, in order, and the first error ends the batch
RECURSIVE ParseLines(_, _)
ParseLines(lines, acc) ==
    IF lines = <<>> THEN Ok(Basket_new(acc))
    ELSE LET r == Item_from_str(Head(lines))
         IN  IF ~r.ok THEN Err(r.err)
             ELSE ParseLines(Tail(lines), Append(acc, r.val))

\* variant of Basket_from_str that skips the lines it cannot parse
RECURSIVE ParseLinesSkipping(_, _)
ParseLinesSkipping(lines, acc) ==
    IF lines = <<>> THEN Ok(Basket_new(acc))
    ELSE LET r == Item_from_str(Head(lines))
         IN  ParseLinesSkipping(Tail(lines),
                                IF r.ok THEN Append(acc, r.val) ELSE acc)
Basket_from_str_skipping(lines) == ParseLinesSkipping(lines, <<>>)

Basket_from_str(lines) == ParseLines(lines, <<>>)

----------------------------------------------------------------------------
(* Inputs *)

SeqsUpTo(S, n) == UNION {[1..k -> S] : k \in 0..n}

\* prices of the repository's tests, the range 0.00 .. MaxCents / 100, negative
\* prices, and NaN
TestCents == {85, 975, 1000, 1125, 1249, 1499, 1649, 1899, 2799, 4750}
Prices ==
    {Cents(c) : c \in TestCents \cup (0..MaxCents) \cup {-1899, -1}} \cup {NaN}

Names == {<<"book">>, <<"music CD">>}

Chunks == {"imported", "pills", "chocolates", "perfume", "book", Sep,
           "18.99", "-18.99", "NaN"}
Lines == SeqsUpTo(Chunks, MaxChunks)

MkItem(c, imported, tag, name) ==
    [clean_price |-> Cents(c), imported |-> imported,
     category |-> Category(tag, name)]

\* the items of basket_tests::test_total
ImportedPerfume == MkItem(2799, "Yes", "Other", <<"bottle of perfume">>)
Perfume == MkItem(1899, "No", "Other", <<"bottle of perfume">>)
HeadachePills == MkItem(975, "No", "Medical", <<"packet of headache pills">>)
ImportedChocolates == MkItem(1125, "Yes", "Food", <<"box of chocolates">>)
TestBasket == <<ImportedPerfume, Perfume, HeadachePills, ImportedChocolates>>

BasketItems ==
    {ImportedPerfume, Perfume, HeadachePills, ImportedChocolates,
     MkItem(1000, "Yes", "Food", <<"box of chocolates">>)}

BatchLines ==
    {<<"imported", "perfume", Sep, "18.99">>,
     <<"pills", Sep, "11.25">>,
     <<"imported", "chocolates", Sep, "11.25">>,
     <<"perfume", "18.99">>,
     <<"perfume", Sep, "book">>,
     <<"perfume", Sep, "-18.99">>}

----------------------------------------------------------------------------
(* The program: one run constructs a value, then queries it any number of   *)
(* times.  The values are immutable, so runs do not influence each other.   *)

NoOut == [op |-> "none"]

Init ==
    /\ input = [kind |-> "none"]
    /\ made = "none"
    /\ item = Unset
    /\ basket = Unset
    /\ out = NoOut

ItemNew ==
    /\ made = "none"
    /\ \E clean_price \in Prices, imported \in Imported,
          tag \in CategoryTags, name \in Names :
           /\ input' = [kind |-> "Item::new", clean_price |-> clean_price,
                        imported |-> imported, category |-> Category(tag, name)]
           /\ item' = Item_new(clean_price, imported, Category(tag, name))
           /\ made' = "item"
           /\ basket' = Unset
           /\ out' = NoOut

ItemFromStr ==
    /\ made = "none"
    /\ \E s \in Lines :
           /\ input' = [kind |-> "Item::from_str", s |-> s]
           /\ item' = Item_from_str(s)
           /\ made' = "item"
           /\ basket' = Unset
           /\ out' = NoOut

ItemGetPrices ==
    /\ made = "item" /\ item.ok
    /\ out' = [op |-> "get_prices", val |-> Item_get_prices(item.val)]
    /\ UNCHANGED <<input, made, item, basket>>

ItemToString ==
    /\ made = "item" /\ item.ok
    /\ out' = [op |-> "to_string", val |-> Item_to_string(item.val)]
    /\ UNCHANGED <<input, made, item, basket>>

BasketNew ==
    /\ made = "none"
    /\ \E elements \in SeqsUpTo(BasketItems, MaxElems) :
           /\ input' = [kind |-> "Basket::new", elements |-> elements]
           /\ basket' = Ok(Basket_new(elements))
           /\ made' = "basket"
           /\ item' = Unset
           /\ out' = NoOut

BasketFromStr ==
    /\ made = "none"
    /\ \E lines \in SeqsUpTo(BatchLines, MaxLines) :
           /\ input' = [kind |-> "Basket::from_str", lines |-> lines]
           /\ basket' = Basket_from_str(lines)
           /\ made' = "basket"
           /\ item' = Unset
           /\ out' = NoOut

BasketGetTotal ==
    /\ made = "basket" /\ basket.ok
    /\ out' = [op |-> "get_total", val |-> Basket_get_total(basket.val)]
    /\ UNCHANGED <<input, made, item, basket>>

BasketGetTax ==
    /\ made = "basket" /\ basket.ok
    /\ out' = [op |-> "get_tax", val |-> Basket_get_tax(basket.val)]
    /\ UNCHANGED <<input, made, item, basket>>

BasketToString ==
    /\ made = "basket" /\ basket.ok
    /\ out' = [op |-> "to_string", val |-> Basket_to_string(basket.val)]
    /\ UNCHANGED <<input, made, item, basket>>

Next ==
    \/ ItemNew
    \/ ItemFromStr
    \/ ItemGetPrices
    \/ ItemToString
    \/ BasketNew
    \/ BasketFromStr
    \/ BasketGetTotal
    \/ BasketGetTax
    \/ BasketToString

Spec == Init /\ [][Next]_vars

----------------------------------------------------------------------------
(* Vocabulary of the properties *)

\* the error kinds of the specification, as the messages the code returns
KindOf(e) ==
    CASE e = ErrMissingAt -> "MissingSeparator"
      [] e \in {ErrPrice, ErrNotPositive} -> "InvalidPrice"
      [] OTHER -> "Unknown"

\* the tax rate of an item, in percent, by the table of the specification
RatePercent(it) ==
    (IF it.category.tag = "Other" THEN 10 ELSE 0)
        + (IF it.imported = "Yes" THEN 5 ELSE 0)

DigitChunks == {"0", "1", "2", "3", "4", "5", "6", "7", "8", "9"}

\* an amount written with exactly two digits after the decimal point
TwoDecimals(a) ==
    /\ Len(a) >= 4
    /\ a[Len(a) - 2] = "."
    /\ \A i \in 1..Len(a) : i # Len(a) - 2 => a[i] \in DigitChunks

\* x written with exactly two decimals (x a whole number of cents, x >= 0)
Fmt2(x) == Digits(x.v \div Scale) \o <<".">> \o PadDigits((x.v % Scale) \div 100, 2)

Labels == {": ", "Sales Taxes: ", "Total: "}

\* the amount of a receipt line: what follows its label
AmountOf(line) ==
    LET k == CHOOSE i \in 1..Len(line) :
                 line[i] \in Labels /\ \A j \in (i + 1)..Len(line) : line[j] \notin Labels
    IN  SubSeq(line, k + 1, Len(line))

\* the text of a receipt line before its amount
LabelOf(line) == SubSeq(line, 1, Len(line) - Len(AmountOf(line)))

SepCount(s) == Cardinality({i \in 1..Len(s) : s[i] = Sep})
SepAt(s) == CHOOSE i \in 1..Len(s) : s[i] = Sep
DescrOf(s) == SubSeq(s, 1, SepAt(s) - 1)
PriceTextOf(s) == SubSeq(s, SepAt(s) + 1, Len(s))
HasChunk(s, c) == \E i \in 1..Len(s) : s[i] = c

DecimalTexts == {<<"18.99">>, <<"-18.99">>, <<"11.25">>}
NegativeTexts == {<<"-18.99">>}

----------------------------------------------------------------------------
(* Properties *)

C2_TestBasketTotals ==
    (made = "basket" /\ basket.ok /\ basket.val.elements = TestBasket) =>
        /\ out.op = "get_tax" => out.val = Cents(670)
        /\ out.op = "get_total" => out.val = Cents(7468)

\* C3: for every constructed Item the tax is non-negative and a multiple of 0.05.
C3_TaxNonNegativeMultiple ==
    (made = "item" /\ item.ok /\ out.op = "get_prices") =>
        /\ FGe(out.val[2], F(0))
        /\ out.val[2].v % 500 = 0

\* C4: display() is "1 ", "imported " for an imported item, the name, ": " and
\* the pre-tax price plus the tax.
C4_DisplayShowsPricePlusTax ==
    (made = "item" /\ item.ok /\ out.op = "to_string"
        /\ FGe(item.val.clean_price, F(0))) =>
        LET pr == Item_get_prices(item.val)
            amount == FAdd(pr[1], pr[2])
        IN  /\ LabelOf(out.val) =
                  <<IF item.val.imported = "Yes" THEN "1 imported " ELSE "1 ">>
                      \o item.val.category.name \o <<": ">>
            /\ AmountOf(out.val) \in {FmtF64(amount), Fmt2(amount)}

\* C5: construction with a price < 0 fails with InvalidPrice, construction with a
\* price >= 0 succeeds, and every Item that exists has a price >= 0.
C5_ItemsHaveNonNegativePrice ==
    /\ input.kind = "Item::new" =>
          /\ FLt(input.clean_price, F(0)) =>
                ~item.ok /\ KindOf(item.err) = "InvalidPrice"
          /\ FGe(input.clean_price, F(0)) => item.ok
    /\ (made = "item" /\ item.ok) => FGe(item.val.clean_price, F(0))

\* C6: parse fails with MissingSeparator when the line does not hold exactly one
\* " at ", else with InvalidPrice when the text after it is not a decimal number
\* or is negative, and succeeds in every other case.
C6_ParseErrors ==
    input.kind = "Item::from_str" =>
        IF SepCount(input.s) # 1
        THEN ~item.ok /\ KindOf(item.err) = "MissingSeparator"
        ELSE IF PriceTextOf(input.s) \notin DecimalTexts
                \/ PriceTextOf(input.s) \in NegativeTexts
        THEN ~item.ok /\ KindOf(item.err) = "InvalidPrice"
        ELSE item.ok

\* C7: a parsed Item is imported iff its description contains "imported"; it is
\* Medical if the description contains "pills", else Food if it contains
\* "chocolate", else Other; never Book; and its name is the whole description.
C7_ParserClassification ==
    (input.kind = "Item::from_str" /\ item.ok) =>
        LET descr == DescrOf(input.s)
        IN  /\ item.val.imported = "Yes" <=> HasChunk(descr, "imported")
            /\ item.val.category.tag =
                  IF HasChunk(descr, "pills") THEN "Medical"
                  ELSE IF HasChunk(descr, "chocolates") THEN "Food"
                  ELSE "Other"
            /\ item.val.category.tag # "Book"
            /\ item.val.category.name = descr

\* C7 witness: a description with "chocolate" before "pills", and without
\* "imported", has been parsed into a domestic Medical item.
C7_Witness ==
    /\ input.kind = "Item::from_str" /\ item.ok
    /\ DescrOf(input.s) = <<"chocolates", "pills">>
    /\ item.val.imported = "No"
    /\ item.val.category.tag = "Medical"

C9_TwoDecimalPlaces ==
    out.op = "to_string" =>
        LET ls == SplitOn(out.val, "\n")
        IN  \A i \in 1..Len(ls) : TwoDecimals(AmountOf(ls[i]))

\* C10: building a Basket from lines parses them in order; the result is the
\* error of the first line that fails to parse, and no Basket, or, when every
\* line parses, the Basket of the parsed Items in the order of the lines.
C10_BatchFailFast ==
    input.kind = "Basket::from_str" =>
        LET lines == input.lines
            bad == {i \in 1..Len(lines) : ~Item_from_str(lines[i]).ok}
        IN  IF bad = {}
            THEN /\ basket.ok
                 /\ Len(basket.val.elements) = Len(lines)
                 /\ \A i \in 1..Len(lines) :
                        basket.val.elements[i] = Item_from_str(lines[i]).val
            ELSE LET first == CHOOSE i \in bad : \A j \in bad : i <= j
                 IN  basket = Err(Item_from_str(lines[first]).err)

\* C10 witness: a batch whose first line parses, whose second line has an
\* invalid price and whose third line has no separator has failed with the
\* second line's error.
C10_Witness ==
    /\ input.kind = "Basket::from_str"
    /\ Len(input.lines) = 3
    /\ Item_from_str(input.lines[1]).ok
    /\ Item_from_str(input.lines[2]) = Err(ErrPrice)
    /\ Item_from_str(input.lines[3]) = Err(ErrMissingAt)
    /\ basket = Err(ErrPrice)

====
